---- MODULE Spec2Model ----
(***************************************************************************)
(* Model of bin/numapde-create-new-publication.py: a linear script that    *)
(* forks a Gitlab template project, polls until the fork is ready, updates *)
(* its description and commits a generated README.md.                      *)
(*                                                                         *)
(* Strings that the script transforms (titles, URLs, README text) are      *)
(* sequences of one-character strings.  A JSON object is a record whose    *)
(* fields are sets: {} when the key is absent, {v} when the key has the    *)
(* value v.  Python's None is the value None.                              *)
(***************************************************************************)
EXTENDS Integers, Sequences, FiniteSets

(***************************************************************************)
(* Bounds of the model                                                     *)
(***************************************************************************)
\* longest short title on the command line
MaxLen == 2
\* capacity of the recorded request history (a run issues at most 9)
MaxLog == 10

(***************************************************************************)
(* Program constants                                                       *)
(***************************************************************************)
None == "None"
defaultNamespace == "numapde/Publications"
templateId == 5326
POST_OK == 201
PUT_OK == 200
GET_OK == PUT_OK
nWaitMax0 == 5
nWaitTime == 2

(***************************************************************************)
(* Environment of the script: inputs and server answers                    *)
(***************************************************************************)
Chars == {"a", " ", "-"}

RECURSIVE StringsUpTo(_)
StringsUpTo(n) ==
    IF n = 0 THEN {<< >>}
    ELSE LET S == StringsUpTo(n - 1)
         IN  S \cup {Append(s, c) : s \in {t \in S : Len(t) = n - 1}, c \in Chars}

ShortTitles == StringsUpTo(MaxLen)
LongTitles == {<<"a">>, <<"a", " ", "a">>}

\* os.environ: the set of variables that are set, with their values
Environs ==
    { [server |-> s, token |-> t] : s \in {{}, {"gitlab.example"}},
                                    t \in {{}, {"glpat"}} }

\* the command line: positionals, the two optional flags ({} = flag absent,
\* {None} = flag given without a value), and -h
Argvs ==
    { [positionals |-> <<l, s>>, namespace |-> n, description |-> d, help |-> FALSE] :
          l \in LongTitles, s \in ShortTitles,
          n \in {{}, {None}, {"numapde/Sandbox"}}, d \in {{}, {"text"}} }
    \cup { [positionals |-> << <<"a">> >>, namespace |-> {}, description |-> {}, help |-> FALSE],
           [positionals |-> << <<"a">>, <<"a">> >>, namespace |-> {}, description |-> {}, help |-> TRUE] }

\* README.md.in as a sequence of tokens: conversion specifiers and literal text
ConversionSpecs ==
    {"%(PUBLICATION_TITLE)s", "%(HTTP_URL_TO_REPO)s", "%(SSH_URL_TO_REPO)s", "%(AUTHOR)s"}
TemplateFiles ==
    { {},
      {<<"#", "%(PUBLICATION_TITLE)s", "#", "%(SSH_URL_TO_REPO)s", "%(HTTP_URL_TO_REPO)s">>},
      {<<"%(HTTP_URL_TO_REPO)s", "%(PUBLICATION_TITLE)s">>},
      {<<"#", "%(AUTHOR)s">>} }

\* response bodies
NoJson == [json |-> FALSE, id |-> {}, ssh_url_to_repo |-> {}, http_url_to_repo |-> {},
           default_branch |-> {}, message |-> {}]
JsonObject == [NoJson EXCEPT !.json = TRUE]
ErrorBody == [JsonObject EXCEPT !.message = {"error"}]
ProjectBody(branch) ==
    [JsonObject EXCEPT !.id = {7}, !.ssh_url_to_repo = {<<"s">>},
                       !.http_url_to_repo = {<<"h">>}, !.default_branch = {branch}]

Response(status, body) == [status_code |-> status, text |-> body]

ForkResponses ==
    { Response(s, b) : s \in {POST_OK, 409},
                       b \in { ProjectBody(None),
                               [ProjectBody(None) EXCEPT !.ssh_url_to_repo = {}],
                               ErrorBody, NoJson } }
GetResponses ==
    { Response(GET_OK, ProjectBody(None)), Response(GET_OK, ProjectBody("master")),
      Response(500, ProjectBody("master")),
      Response(404, ErrorBody), Response(502, NoJson) }
PutResponses ==
    { Response(s, b) : s \in {PUT_OK, 400}, b \in {ErrorBody, NoJson} }

(***************************************************************************)
(* Pure helpers of the script                                              *)
(***************************************************************************)
\* dict.get(key, default) / os.environ.get(key, default) on a set-valued field
Get(field, default) == IF field = {} THEN default ELSE CHOOSE v \in field : TRUE

\* dict[key] on a set-valued field whose key is present
Item(field) == CHOOSE v \in field : TRUE

\* variant: tests for the empty string instead of None
IsNoneEmptyString(v) == v = ""

\* "x is None"
IsNone(v) == v = None

\* variant: str.replace(old, new, 1), only the first occurrence
ReplaceFirst(s, old, new) ==
    IF \E k \in 1..Len(s) : s[k] = old
    THEN LET first == CHOOSE k \in 1..Len(s) : s[k] = old /\ \A j \in 1..(k - 1) : s[j] /= old
         IN  [s EXCEPT ![first] = new]
    ELSE s

\* str.replace(old, new) for one-character old and new: every occurrence
RECURSIVE Replace(_, _, _)
Replace(s, old, new) ==
    IF s = << >> THEN << >>
    ELSE << (IF Head(s) = old THEN new ELSE Head(s)) >> \o Replace(Tail(s), old, new)

\* urlFormat % {'projectId': id} + suffix
Url(server, projectId, suffix) ==
    [server |-> server, projectId |-> projectId, suffix |-> suffix]

\* the request payloads (data = payload); absent keys are {}
NoPayload ==
    [namespace |-> {}, name |-> {}, id |-> {}, path |-> {}, description |-> {},
     file_path |-> {}, branch |-> {}, content |-> {}, commit_message |-> {}]
ForkPayload(ns, long, short) ==
    [NoPayload EXCEPT !.namespace = {ns}, !.name = {long}, !.id = {templateId},
                      !.path = {short}]
DescriptionPayload(id, description) ==
    [NoPayload EXCEPT !.id = {id}, !.description = {description}]
ReadmePayload(content) ==
    [NoPayload EXCEPT !.file_path = {"README%2Emd"}, !.branch = {"master"},
                      !.content = {content},
                      !.commit_message = {"auto-generates README.md"}]

\* variant: the two repository URLs exchanged
ReadmeValuesSwapped(long, http, ssh) ==
    [k \in {"%(PUBLICATION_TITLE)s", "%(HTTP_URL_TO_REPO)s", "%(SSH_URL_TO_REPO)s"} |->
        CASE k = "%(PUBLICATION_TITLE)s" -> long
          [] k = "%(HTTP_URL_TO_REPO)s" -> ssh
          [] k = "%(SSH_URL_TO_REPO)s" -> http]

\* readme % {...}: each conversion specifier becomes the value of its key
ReadmeValues(long, http, ssh) ==
    [k \in {"%(PUBLICATION_TITLE)s", "%(HTTP_URL_TO_REPO)s", "%(SSH_URL_TO_REPO)s"} |->
        CASE k = "%(PUBLICATION_TITLE)s" -> long
          [] k = "%(HTTP_URL_TO_REPO)s" -> http
          [] k = "%(SSH_URL_TO_REPO)s" -> ssh]
FormatRaises(template, values) ==
    \E i \in 1..Len(template) :
        template[i] \in ConversionSpecs /\ template[i] \notin DOMAIN values
RECURSIVE Format(_, _)
Format(template, values) ==
    IF template = << >> THEN << >>
    ELSE << (IF Head(template) \in DOMAIN values THEN values[Head(template)]
             ELSE << Head(template) >>) >> \o Format(Tail(template), values)

\* variants: status checks that accept every status from 200 up, a loop that
\* only counts, a counter that is never lowered
ForkOkLax(resp) == resp.status_code >= PUT_OK
PutOkLax(resp) == resp.status_code >= PUT_OK
LoopCondCountOnly(info, n) == n > 0
DecrementMissing(n) == n

\* the status checks and the loop conditions
ForkOk(resp) == resp.status_code = POST_OK
PutOk(resp) == resp.status_code = PUT_OK
LoopCond(info, n) == IsNone(Item(info.default_branch)) /\ n > 0
TimedOut(info) == IsNone(Item(info.default_branch))
Decrement(n) == n - 1

\* a line on standard output, with the status code and response text it shows
Msg(m, status, text) == [msg |-> m, status |-> status, text |-> text]

\* the history of issued requests with the responses they got
Request(method, url, token, payload, resp) ==
    [method |-> method, url |-> url, token |-> token, payload |-> payload,
     response |-> resp]
Record(log, req) == IF Len(log) < MaxLog THEN Append(log, req) ELSE log

(***************************************************************************)
(* State                                                                   *)
(***************************************************************************)
VARIABLES
    environ, argv, templateFile,   \* inputs: environment, command line, README.md.in
    pc,                            \* position in the script
    gitlabServer, privateToken, args,
    longTitle, shortTitle, namespace, newDescription,
    payload, newProject, newId, nWaitMax, projInfo,
    out, err, exitCode,            \* standard output, standard error, exit status
    reqs, slept                    \* issued requests, seconds slept

inputs == <<environ, argv, templateFile>>
config == <<gitlabServer, privateToken, args>>
titles == <<longTitle, shortTitle, namespace, newDescription>>
forked == <<newProject, newId>>
vars == <<environ, argv, templateFile, pc, gitlabServer, privateToken, args,
          longTitle, shortTitle, namespace, newDescription, payload, newProject,
          newId, nWaitMax, projInfo, out, err, exitCode, reqs, slept>>

Init ==
    /\ environ \in Environs
    /\ argv \in Argvs
    /\ templateFile \in TemplateFiles
    /\ pc = "env_server"
    /\ gitlabServer = None
    /\ privateToken = None
    /\ args = [longTitle |-> << >>, shortTitle |-> << >>, namespace |-> defaultNamespace,
               description |-> ""]
    /\ longTitle = << >>
    /\ shortTitle = << >>
    /\ namespace = defaultNamespace
    /\ newDescription = ""
    /\ payload = NoPayload
    /\ newProject = NoJson
    /\ newId = 0
    /\ nWaitMax = nWaitMax0
    /\ projInfo = NoJson
    /\ out = << >>
    /\ err = << >>
    /\ exitCode = {}
    /\ reqs = << >>
    /\ slept = 0

\* sys.exit(code)
Exit(code) == pc' = "exit" /\ exitCode' = {code}

\* an uncaught exception: traceback on standard error, exit status 1
Raise(exception) == err' = Append(err, exception) /\ Exit(1)

(***************************************************************************)
(* The script, top to bottom                                               *)
(***************************************************************************)
\* lines 22-25
CheckServer ==
    /\ pc = "env_server"
    /\ gitlabServer' = Get(environ.server, None)
    /\ IF IsNone(gitlabServer')
       THEN /\ out' = Append(out, Msg("Please set the NUMAPDE_GITLAB_SERVER variable.", {}, {}))
            /\ Exit(1)
       ELSE /\ pc' = "parse_args"
            /\ UNCHANGED <<out, exitCode>>
    /\ UNCHANGED <<inputs, privateToken, args, titles, payload, forked, nWaitMax,
                   projInfo, err, reqs, slept>>

\* line 57: argparse prints the help and exits 0 on -h, prints the usage on
\* standard error and exits 2 when a positional is missing
ParseArgs ==
    /\ pc = "parse_args"
    /\ IF argv.help
       THEN /\ out' = Append(out, Msg("usage and help", {}, {}))
            /\ Exit(0)
            /\ UNCHANGED <<args, err>>
       ELSE IF Len(argv.positionals) /= 2
       THEN /\ err' = Append(err, "usage: error: the following arguments are required")
            /\ Exit(2)
            /\ UNCHANGED <<args, out>>
       ELSE /\ args' = [longTitle |-> argv.positionals[1],
                        shortTitle |-> argv.positionals[2],
                        namespace |-> Get(argv.namespace, defaultNamespace),
                        description |-> Get(argv.description, "")]
            /\ pc' = "env_token"
            /\ UNCHANGED <<out, err, exitCode>>
    /\ UNCHANGED <<inputs, gitlabServer, privateToken, titles, payload, forked,
                   nWaitMax, projInfo, reqs, slept>>

\* lines 60-63
CheckToken ==
    /\ pc = "env_token"
    /\ privateToken' = Get(environ.token, None)
    /\ IF IsNone(privateToken')
       THEN /\ out' = Append(out, Msg("Please set the NUMAPDE_GITLAB_TOKEN variable.", {}, {}))
            /\ Exit(1)
       ELSE /\ pc' = "prepare"
            /\ UNCHANGED <<out, exitCode>>
    /\ UNCHANGED <<inputs, gitlabServer, args, titles, payload, forked, nWaitMax,
                   projInfo, err, reqs, slept>>

\* lines 66-87
Prepare ==
    /\ pc = "prepare"
    /\ longTitle' = args.longTitle
    /\ shortTitle' = Replace(args.shortTitle, " ", "-")
    /\ namespace' = args.namespace
    /\ newDescription' = args.description
    /\ payload' = ForkPayload(namespace', longTitle', shortTitle')
    /\ pc' = "fork"
    /\ UNCHANGED <<inputs, config, forked, nWaitMax, projInfo, out, err, exitCode,
                   reqs, slept>>

\* lines 91-101
Fork(resp) ==
    /\ pc = "fork"
    /\ reqs' = Record(reqs, Request("POST", Url(gitlabServer, templateId, "/fork"),
                                    privateToken, payload, resp))
    /\ IF ~ForkOk(resp)
       THEN /\ out' = out \o << Msg("Requesting the Gitlab server to fork", {}, {}),
                                Msg("Something went wrong during forking.",
                                    {resp.status_code}, {resp.text}) >>
            /\ Exit(1)
            /\ UNCHANGED <<forked, err>>
       ELSE /\ out' = Append(out, Msg("Requesting the Gitlab server to fork", {}, {}))
            /\ IF ~resp.text.json
               THEN Raise("json.JSONDecodeError") /\ UNCHANGED forked
               ELSE IF resp.text.id = {}
               THEN Raise("KeyError: 'id'") /\ UNCHANGED newId /\ newProject' = resp.text
               ELSE /\ newProject' = resp.text
                    /\ newId' = Item(resp.text.id)
                    /\ pc' = "first_get"
                    /\ UNCHANGED <<err, exitCode>>
    /\ UNCHANGED <<inputs, config, titles, payload, nWaitMax, projInfo, slept>>

\* lines 105-111: the first test of the new project
FirstGet(resp) ==
    /\ pc = "first_get"
    /\ nWaitMax' = nWaitMax0
    /\ out' = Append(out, Msg("Waiting to allow Gitlab to create the project", {}, {}))
    /\ reqs' = Record(reqs, Request("GET", Url(gitlabServer, newId, ""), privateToken,
                                    NoPayload, resp))
    /\ IF ~resp.text.json
       THEN Raise("json.JSONDecodeError") /\ UNCHANGED projInfo
       ELSE projInfo' = resp.text /\ pc' = "poll" /\ UNCHANGED <<err, exitCode>>
    /\ UNCHANGED <<inputs, config, titles, payload, forked, slept>>

\* line 113 when the response has no 'default_branch' key
PollKeyError ==
    /\ pc = "poll"
    /\ projInfo.default_branch = {}
    /\ Raise("KeyError: 'default_branch'")
    /\ UNCHANGED <<inputs, config, titles, payload, forked, nWaitMax, projInfo, out,
                   reqs, slept>>

\* lines 113-117: one more iteration of the loop
PollAgain(resp) ==
    /\ pc = "poll"
    /\ projInfo.default_branch /= {}
    /\ LoopCond(projInfo, nWaitMax)
    /\ slept' = slept + nWaitTime
    /\ reqs' = Record(reqs, Request("GET", Url(gitlabServer, newId, ""), privateToken,
                                    NoPayload, resp))
    /\ IF ~resp.text.json
       THEN Raise("json.JSONDecodeError") /\ UNCHANGED <<projInfo, nWaitMax>>
       ELSE /\ projInfo' = resp.text
            /\ nWaitMax' = Decrement(nWaitMax)
            /\ UNCHANGED <<pc, err, exitCode>>
    /\ UNCHANGED <<inputs, config, titles, payload, forked, out>>

\* line 113 false, then lines 119-121
PollDone ==
    /\ pc = "poll"
    /\ projInfo.default_branch /= {}
    /\ ~LoopCond(projInfo, nWaitMax)
    /\ IF TimedOut(projInfo)
       THEN /\ out' = Append(out, Msg("the project creation took a too long time.", {}, {}))
            /\ Exit(1)
       ELSE /\ pc' = "update_description"
            /\ UNCHANGED <<out, exitCode>>
    /\ UNCHANGED <<inputs, config, titles, payload, forked, nWaitMax, projInfo, err,
                   reqs, slept>>

\* lines 124-131
UpdateDescription(resp) ==
    /\ pc = "update_description"
    /\ payload' = DescriptionPayload(newId, newDescription)
    /\ reqs' = Record(reqs, Request("PUT", Url(gitlabServer, newId, ""), privateToken,
                                    payload', resp))
    /\ IF ~PutOk(resp)
       THEN /\ out' = Append(out, Msg("Updating project description failed.", {}, {resp.text}))
            /\ Exit(1)
       ELSE /\ pc' = "commit_readme"
            /\ UNCHANGED <<out, exitCode>>
    /\ UNCHANGED <<inputs, config, titles, forked, nWaitMax, projInfo, err, slept>>

\* lines 137-167
CommitReadme(resp) ==
    /\ pc = "commit_readme"
    /\ IF templateFile = {}
       THEN /\ out' = Append(out, Msg("Using template", {}, {}))
            /\ Raise("FileNotFoundError")
            /\ UNCHANGED <<payload, reqs>>
       ELSE IF newProject.ssh_url_to_repo = {}
       THEN /\ out' = Append(out, Msg("Using template", {}, {}))
            /\ Raise("KeyError: 'ssh_url_to_repo'")
            /\ UNCHANGED <<payload, reqs>>
       ELSE IF newProject.http_url_to_repo = {}
       THEN /\ out' = Append(out, Msg("Using template", {}, {}))
            /\ Raise("KeyError: 'http_url_to_repo'")
            /\ UNCHANGED <<payload, reqs>>
       ELSE LET readme == Item(templateFile)
                sshURLToRepo == Item(newProject.ssh_url_to_repo)
                httpURLToRepo == Item(newProject.http_url_to_repo)
                values == ReadmeValues(longTitle, httpURLToRepo, sshURLToRepo)
            IN  IF FormatRaises(readme, values)
                THEN /\ out' = Append(out, Msg("Using template", {}, {}))
                     /\ Raise("KeyError")
                     /\ UNCHANGED <<payload, reqs>>
                ELSE /\ payload' = ReadmePayload(Format(readme, values))
                     /\ reqs' = Record(reqs, Request("PUT",
                                           Url(gitlabServer, newId, "/repository/files/README.md"),
                                           privateToken, payload', resp))
                     /\ UNCHANGED err
                     /\ IF ~PutOk(resp)
                        THEN /\ out' = out \o << Msg("Using template", {}, {}),
                                                 Msg("Commiting README.md failed.", {}, {resp.text}) >>
                             /\ Exit(1)
                        ELSE /\ out' = out \o << Msg("Using template", {}, {}),
                                                 Msg("Clone the new repository using", {}, {}),
                                                 Msg("Then update the submodules via", {}, {}) >>
                             /\ Exit(0)
    /\ UNCHANGED <<inputs, config, titles, forked, nWaitMax, projInfo, slept>>

Next ==
    \/ CheckServer
    \/ ParseArgs
    \/ CheckToken
    \/ Prepare
    \/ \E resp \in ForkResponses : Fork(resp)
    \/ \E resp \in GetResponses : FirstGet(resp)
    \/ PollKeyError
    \/ \E resp \in GetResponses : PollAgain(resp)
    \/ PollDone
    \/ \E resp \in PutResponses : UpdateDescription(resp)
    \/ \E resp \in PutResponses : CommitReadme(resp)

Spec == Init /\ [][Next]_vars

\* the script runs on: every statement that can execute eventually does
FairSpec == Spec /\ WF_vars(Next)

TypeOK ==
    /\ pc \in {"env_server", "parse_args", "env_token", "prepare", "fork", "first_get",
               "poll", "update_description", "commit_readme", "exit"}
    /\ exitCode \subseteq {0, 1, 2}
    /\ nWaitMax \in 0..nWaitMax0
    /\ Len(reqs) <= MaxLog

(***************************************************************************)
(* Vocabulary of the properties: what the request history and the output   *)
(* of a run show                                                           *)
(***************************************************************************)
IsFork(q) == q.method = "POST" /\ q.url.suffix = "/fork"
IsGet(q) == q.method = "GET" /\ q.url.suffix = ""
IsPutDescription(q) == q.method = "PUT" /\ q.url.suffix = ""
IsPutReadme(q) == q.method = "PUT" /\ q.url.suffix = "/repository/files/README.md"

Stage(q) ==
    CASE IsFork(q) -> 1
      [] IsGet(q) -> 2
      [] IsPutDescription(q) -> 3
      [] IsPutReadme(q) -> 4
      [] OTHER -> 0

Expected(q) == IF IsFork(q) THEN 201 ELSE 200
Unexpected(q) == q.response.status_code /= Expected(q)

ReportsNull(q) == q.response.text.json /\ q.response.text.default_branch = {None}
ReportsBranch(q) ==
    /\ q.response.text.json
    /\ q.response.text.default_branch /= {}
    /\ q.response.text.default_branch /= {None}

Gets == {i \in 1..Len(reqs) : IsGet(reqs[i])}
Printed(m) == \E k \in 1..Len(out) : out[k].msg = m
TimeoutPrinted == Printed("the project creation took a too long time.")
SuccessPrinted == Printed("Clone the new repository using")
Exited == pc = "exit"
Last(seq) == seq[Len(seq)]

(***************************************************************************)
(* C1: the requests are issued in the order POST fork, GET project         *)
(* (repeated), PUT description, PUT README.md; a GET needs a fork answered *)
(* 201, the PUT description needs an earlier GET response with a non-null  *)
(* default_branch, the PUT README.md directly follows a PUT description    *)
(* answered 200, and the success instructions need a PUT README.md         *)
(* answered 200.                                                           *)
(***************************************************************************)
C1_OrderedAndGated ==
    /\ \A i \in 1..Len(reqs) : Stage(reqs[i]) \in 1..4
    /\ \A i, j \in 1..Len(reqs) :
          i < j => /\ Stage(reqs[i]) <= Stage(reqs[j])
                   /\ Stage(reqs[i]) = Stage(reqs[j]) => IsGet(reqs[i])
    /\ reqs /= << >> => IsFork(reqs[1])
    /\ \A i \in 1..Len(reqs) :
          IsGet(reqs[i]) => i > 1 /\ reqs[1].response.status_code = 201
    /\ \A i \in 1..Len(reqs) :
          IsPutDescription(reqs[i]) => \E j \in 1..(i - 1) : IsGet(reqs[j]) /\ ReportsBranch(reqs[j])
    /\ \A i \in 1..Len(reqs) :
          IsPutReadme(reqs[i]) =>
              i > 1 /\ IsPutDescription(reqs[i - 1]) /\ reqs[i - 1].response.status_code = 200
    /\ SuccessPrinted =>
          reqs /= << >> /\ IsPutReadme(Last(reqs)) /\ Last(reqs).response.status_code = 200

\* a successful run that polled more than once
C1_Witness ==
    /\ Exited /\ SuccessPrinted
    /\ Cardinality(Gets) >= 2
    /\ Len(reqs) = Cardinality(Gets) + 3

(***************************************************************************)
(* C2 (as claimed): once the fork has been requested, the exit code is 0   *)
(* exactly when the fork returned 201, a GET saw a non-null default_branch *)
(* and both PUTs returned 200; and when any of the four calls returned an  *)
(* unexpected status, or the poll ended on a null default_branch, the exit *)
(* code is 1 and a failure diagnostic is on standard output.               *)
(***************************************************************************)
Succeeded ==
    /\ \E i \in 1..Len(reqs) : IsFork(reqs[i]) /\ reqs[i].response.status_code = 201
    /\ \E i \in Gets : ReportsBranch(reqs[i])
    /\ \E i \in 1..Len(reqs) : IsPutDescription(reqs[i]) /\ reqs[i].response.status_code = 200
    /\ \E i \in 1..Len(reqs) : IsPutReadme(reqs[i]) /\ reqs[i].response.status_code = 200
HttpFailure == \E i \in 1..Len(reqs) : Unexpected(reqs[i])
PollEndedOnNull == reqs /= << >> /\ IsGet(Last(reqs)) /\ ReportsNull(Last(reqs))
DiagnosticPrinted ==
    \/ Printed("Something went wrong during forking.")
    \/ TimeoutPrinted
    \/ Printed("Updating project description failed.")
    \/ Printed("Commiting README.md failed.")
C2_ExitCodeAndDiagnostic ==
    (Exited /\ reqs /= << >>) =>
        /\ exitCode = {0} <=> Succeeded
        /\ (HttpFailure \/ PollEndedOnNull) => exitCode = {1} /\ DiagnosticPrinted

(***************************************************************************)
(* C3 (as claimed): a response with a status code other than the expected  *)
(* one (201 for the fork, 200 for the GET and the two PUTs) is the last    *)
(* request of the run, and the run exits with code 1 after printing a line *)
(* that shows both that status code and that response body.                *)
(***************************************************************************)
C3_UnexpectedStatusIsFatal ==
    \A i \in 1..Len(reqs) :
        Unexpected(reqs[i]) =>
            /\ i = Len(reqs)
            /\ Exited =>
                  /\ exitCode = {1}
                  /\ \E k \in 1..Len(out) :
                        /\ out[k].status = {reqs[i].response.status_code}
                        /\ out[k].text = {reqs[i].response.text}

(***************************************************************************)
(* C4 (as claimed): a run issues at most 5 GET requests for the new        *)
(* project.                                                                *)
(***************************************************************************)
C4_AtMostFiveGets == Cardinality(Gets) <= 5

(***************************************************************************)
(* C5 (as claimed): when NUMAPDE_GITLAB_SERVER or NUMAPDE_GITLAB_TOKEN is  *)
(* unset, no HTTP request is issued and the exit code is 1.                *)
(***************************************************************************)
EnvMissing == environ.server = {} \/ environ.token = {}
C5_ExitOneWithoutRequest ==
    EnvMissing => reqs = << >> /\ (Exited => exitCode = {1})

(***************************************************************************)
(* C5 (amended): when NUMAPDE_GITLAB_SERVER or NUMAPDE_GITLAB_TOKEN is     *)
(* unset, no HTTP request is issued and the script never gets past the     *)
(* token check; the exit code is 1 when the server is unset, and when only *)
(* the token is unset it is 1 if the command line parses, 2 if a           *)
(* positional is missing and 0 for -h, because the command line is parsed  *)
(* before the token is looked up.                                          *)
(***************************************************************************)
C5_NoRequestExitByParse ==
    EnvMissing =>
        /\ reqs = << >>
        /\ pc \in {"env_server", "parse_args", "env_token", "exit"}
        /\ Exited =>
              exitCode = IF environ.server = {} THEN {1}
                         ELSE IF argv.help THEN {0}
                         ELSE IF Len(argv.positionals) /= 2 THEN {2}
                         ELSE {1}

\* the token is missing, the command line is fine: the token check exits
C5_Witness ==
    /\ Exited /\ environ.server /= {} /\ environ.token = {}
    /\ ~argv.help /\ Len(argv.positionals) = 2
    /\ Printed("Please set the NUMAPDE_GITLAB_TOKEN variable.")

(***************************************************************************)
(* C6: in the fork request, 'path' is the short title of the command line  *)
(* with every space replaced by a hyphen (same length, other characters    *)
(* unchanged, no space left), 'name' is the long title unmodified, and     *)
(* 'namespace' is the value of --namespace, or numapde/Publications when   *)
(* the flag is absent.                                                     *)
(***************************************************************************)
C6_ForkPayload ==
    \A i \in 1..Len(reqs) :
        IsFork(reqs[i]) =>
            LET given == argv.positionals[2]
                p == reqs[i].payload
            IN  /\ Cardinality(p.path) = 1
                /\ \A path \in p.path :
                      /\ Len(path) = Len(given)
                      /\ \A k \in 1..Len(given) :
                            path[k] = IF given[k] = " " THEN "-" ELSE given[k]
                      /\ \A k \in 1..Len(path) : path[k] /= " "
                /\ p.name = {argv.positionals[1]}
                /\ argv.namespace = {} => p.namespace = {"numapde/Publications"}
                /\ argv.namespace \notin {{}, {None}} => p.namespace = argv.namespace

\* a fork was requested for a short title of two spaces and a long title
\* with a space, in a namespace given on the command line
C6_Witness ==
    /\ reqs /= << >> /\ IsFork(reqs[1])
    /\ argv.positionals[2] = <<" ", " ">>
    /\ \E k \in 1..Len(argv.positionals[1]) : argv.positionals[1][k] = " "
    /\ argv.namespace = {"numapde/Sandbox"}

(***************************************************************************)
(* C7: the content committed by the PUT README.md is the template with     *)
(* PUBLICATION_TITLE replaced by the long title of the command line and    *)
(* the two URL specifiers replaced by the http_url_to_repo and             *)
(* ssh_url_to_repo of the fork response; the GET and both PUTs address the *)
(* project id of the fork response, not the template id.                   *)
(***************************************************************************)
C7_ReadmeAndProjectId ==
    /\ \A i \in 1..Len(reqs) :
          IsPutReadme(reqs[i]) =>
              LET forkedProject == reqs[1].response.text
              IN  /\ templateFile /= {}
                  /\ Cardinality(reqs[i].payload.content) = 1
                  /\ \A tmpl \in templateFile : \A content \in reqs[i].payload.content :
                        /\ Len(content) = Len(tmpl)
                        /\ \A k \in 1..Len(tmpl) :
                              content[k] =
                                  CASE tmpl[k] = "%(PUBLICATION_TITLE)s" -> argv.positionals[1]
                                    [] tmpl[k] = "%(HTTP_URL_TO_REPO)s" ->
                                          Item(forkedProject.http_url_to_repo)
                                    [] tmpl[k] = "%(SSH_URL_TO_REPO)s" ->
                                          Item(forkedProject.ssh_url_to_repo)
                                    [] OTHER -> << tmpl[k] >>
    /\ \A i \in 1..Len(reqs) :
          (IsGet(reqs[i]) \/ IsPutDescription(reqs[i]) \/ IsPutReadme(reqs[i])) =>
              /\ {reqs[i].url.projectId} = reqs[1].response.text.id
              /\ reqs[i].url.projectId /= 5326

\* a README.md was committed from a template that uses all three specifiers
C7_Witness ==
    /\ reqs /= << >> /\ IsPutReadme(Last(reqs))
    /\ \A spec \in {"%(PUBLICATION_TITLE)s", "%(HTTP_URL_TO_REPO)s", "%(SSH_URL_TO_REPO)s"} :
          \E tmpl \in templateFile : \E k \in 1..Len(tmpl) : tmpl[k] = spec
    /\ Len(argv.positionals[1]) > 1

(***************************************************************************)
(* C8: the POST fork, the PUT description and the PUT README.md are each   *)
(* issued at most once, and a failed step (fork not 201, a PUT not 200,    *)
(* the poll timeout) is the end of the requests: a failed fork or PUT is   *)
(* the last request of the run, and after the timeout the last request is  *)
(* the GET that reported the null default_branch.                          *)
(***************************************************************************)
C8_NoRetryNoRecovery ==
    /\ Cardinality({i \in 1..Len(reqs) : IsFork(reqs[i])}) <= 1
    /\ Cardinality({i \in 1..Len(reqs) : IsPutDescription(reqs[i])}) <= 1
    /\ Cardinality({i \in 1..Len(reqs) : IsPutReadme(reqs[i])}) <= 1
    /\ \A i \in 1..Len(reqs) :
          (~IsGet(reqs[i]) /\ Unexpected(reqs[i])) => i = Len(reqs) /\ Exited /\ exitCode = {1}
    /\ TimeoutPrinted =>
          Exited /\ exitCode = {1} /\ IsGet(Last(reqs)) /\ ReportsNull(Last(reqs))

\* the description update failed after a fork and a poll, and the run ended
C8_Witness ==
    /\ Exited /\ Len(reqs) >= 3
    /\ IsPutDescription(Last(reqs)) /\ Unexpected(Last(reqs))

(***************************************************************************)
(* C9: every run terminates with one exit code, which is 0 or 1 once the   *)
(* poll has started; every iteration of the poll loop that stays in the    *)
(* loop lowers a positive remaining-attempts counter by one.               *)
(***************************************************************************)
C9_Terminates ==
    /\ <>(Exited /\ Cardinality(exitCode) = 1)
    /\ []((Exited /\ Gets /= {}) => exitCode \in {{0}, {1}})
    /\ [][(pc = "poll" /\ pc' = "poll") => (nWaitMax > 0 /\ nWaitMax' = nWaitMax - 1)]_vars

\* the server reported a null default_branch until the counter reached 0
C9_Witness ==
    /\ Exited /\ nWaitMax = 0
    /\ \A i \in Gets : ReportsNull(reqs[i])
    /\ TimeoutPrinted

(***************************************************************************)
(* C10: a GET follows another GET only if that one reported a null         *)
(* default_branch; the run ends with the timeout failure exactly when it   *)
(* has ended, has polled, and every GET response reported a null           *)
(* default_branch; and once the poll loop is left on a response with a     *)
(* non-null default_branch, the last one permitted included, there is no   *)
(* timeout and the script is at or past the PUT description.               *)
(***************************************************************************)
C10_PollStopsAtFirstBranch ==
    /\ \A i \in Gets : (i > 1 /\ IsGet(reqs[i - 1])) => ReportsNull(reqs[i - 1])
    /\ TimeoutPrinted <=> (Exited /\ Gets /= {} /\ \A i \in Gets : ReportsNull(reqs[i]))
    /\ \A i \in Gets :
          (ReportsBranch(reqs[i]) /\ pc /= "poll") =>
              /\ ~TimeoutPrinted
              /\ i = Len(reqs) => pc = "update_description"
              /\ i < Len(reqs) => IsPutDescription(reqs[i + 1])

\* the project became ready on the last permitted GET and the description
\* update was sent
C10_Witness ==
    /\ nWaitMax = 0
    /\ \E i \in Gets : ReportsBranch(reqs[i]) /\ i < Len(reqs) /\ IsPutDescription(reqs[i + 1])

====
